---------------------------- MODULE Spec2Model ----------------------------
(***************************************************************************)
(* Model of the MCP proof-of-concept host (mcp_visualizer.poc):            *)
(*   client.py        MCPClient: connect / list_tools / call_tool / cleanup*)
(*   claude_client.py ClaudeClient: schema conversion, call_claude,        *)
(*                    extract_tool_calls, format_tool_result_for_claude    *)
(*   orchestrator.py  run_poc_workflow: the five-phase run                 *)
(*                                                                         *)
(* A Python str is a sequence of one-character strings, so that            *)
(* concatenation (+=) is \o and the empty string is <<>>.  A Python dict   *)
(* is a record; a key that is absent is absent from the record's DOMAIN.   *)
(* Every await of the code is one step of the model.  What the external    *)
(* collaborators answer (the Tool Provider, the Model Service) is chosen   *)
(* nondeterministically: a value, or an exception.                         *)
(***************************************************************************)
EXTENDS Naturals, Sequences, FiniteSets, TLC

\* Longest content list of a Model Service response that is enumerated.
MaxBlocks == 2

\* Most API calls an arbitrary caller makes on one MCPClient (ClientSpec).
MaxOps == 3

\* Longest list of tool definitions, and longest content list of a tool
\* result, that the pure functions are applied to (PureSpec).
MaxTools == 2

MaxItems == 2

SeqsUpTo(S, n) == UNION {[1..k -> S] : k \in 0..n}

\* ------------------------------------------------------------ values

\* Python's None, for a variable that is not assigned yet.
None == [type |-> "None"]

Texts == {<<"a">>, <<"b">>}

\* The tool_use blocks a response may carry (ids are the Model Service's).
ToolUseBlocks ==
    {[type |-> "tool_use", id |-> "toolu_1", name |-> "get_weather",
      input |-> [city |-> "London"]],
     [type |-> "tool_use", id |-> "toolu_2", name |-> "calculate",
      input |-> [expression |-> "2 + 2"]]}

TextBlocks == {[type |-> "text", text |-> t] : t \in Texts}

Blocks == TextBlocks \cup ToolUseBlocks

\* What messages.create may answer: the content of the response.
Responses == {[content |-> c] : c \in SeqsUpTo(Blocks, MaxBlocks)}

\* What session.call_tool may return (CallToolResult.model_dump()).
ToolResults ==
    {[content |-> <<[type |-> "text", text |-> <<"a">>]>>, isError |-> FALSE],
     [content |-> <<[type |-> "text", text |-> <<"b">>]>>, isError |-> TRUE],
     [content |-> <<>>, isError |-> TRUE]}

\* What session.list_tools may return (each Tool.model_dump()).
ToolLists ==
    {<<>>,
     <<[name |-> "get_weather", description |-> <<"a">>,
        inputSchema |-> [type |-> "object", properties |-> {"city"}]],
       [name |-> "calculate", description |-> <<"b">>,
        inputSchema |-> [type |-> "object", properties |-> {"expression"}]]>>}

UserQueries == {<<"a">>}


\* What the Tool Provider, or the channel to it, may fail with when a request
\* is sent; what the Model Service may fail with.
RequestErrors == {"TransportError", "ProtocolError"}

ModelErrors == {"ModelServiceError"}

\* ------------------------------------------------------------ ClaudeClient

\* Mutant of convert_mcp_tools_to_claude_format: a tool without an
\* inputSchema is skipped (continue).
convert_skips_schemaless(mcp_tools) ==
    LET kept == SelectSeq(mcp_tools, LAMBDA t : "inputSchema" \in DOMAIN t)
    IN [i \in 1..Len(kept) |->
          [name |-> kept[i].name,
           description |->
              IF "description" \in DOMAIN kept[i]
              THEN kept[i].description ELSE <<>>,
           input_schema |-> kept[i].inputSchema]]

\* for mcp_tool in mcp_tools: claude_tools.append({...})
convert_mcp_tools_to_claude_format(mcp_tools) ==
    [i \in 1..Len(mcp_tools) |->
        [name |-> mcp_tools[i].name,
         description |->
            IF "description" \in DOMAIN mcp_tools[i]
            THEN mcp_tools[i].description ELSE <<>>,
         input_schema |->
            IF "inputSchema" \in DOMAIN mcp_tools[i]
            THEN mcp_tools[i].inputSchema
            ELSE [type |-> "object", properties |-> {}]]]

\* The request call_claude hands to messages.create: tools only when truthy.
call_claude_kwargs(msgs, tools, max_tokens) ==
    IF tools # <<>>
    THEN [max_tokens |-> max_tokens, messages |-> msgs, tools |-> tools]
    ELSE [max_tokens |-> max_tokens, messages |-> msgs]

\* Mutant of extract_tool_calls: each call is put in front (insert(0, ...)).
RECURSIVE extract_reversed(_)
extract_reversed(content) ==
    IF content = <<>> THEN <<>>
    ELSE LET block == Head(content) IN
         IF block.type = "tool_use"
         THEN extract_reversed(Tail(content))
              \o <<[id |-> block.id, name |-> block.name,
                    input |-> block.input]>>
         ELSE extract_reversed(Tail(content))

extract_tool_calls_reversed(response) == extract_reversed(response.content)

\* Mutant of extract_tool_calls: the loop is left (break) at the first block
\* that is no tool_use block.
RECURSIVE extract_until_other(_)
extract_until_other(content) ==
    IF content = <<>> THEN <<>>
    ELSE LET block == Head(content) IN
         IF block.type = "tool_use"
         THEN <<[id |-> block.id, name |-> block.name, input |-> block.input]>>
              \o extract_until_other(Tail(content))
         ELSE <<>>

extract_tool_calls_until_other(response) ==
    extract_until_other(response.content)

RECURSIVE extract_from(_)
extract_from(content) ==
    IF content = <<>> THEN <<>>
    ELSE LET block == Head(content) IN
         IF block.type = "tool_use"
         THEN <<[id |-> block.id, name |-> block.name, input |-> block.input]>>
              \o extract_from(Tail(content))
         ELSE extract_from(Tail(content))

extract_tool_calls(response) == extract_from(response.content)

\* Mutant of content_text_of: the type of an item is not looked at.
RECURSIVE content_text_any_type(_)
content_text_any_type(items) ==
    IF items = <<>> THEN <<>>
    ELSE (IF "text" \in DOMAIN Head(items) THEN Head(items).text ELSE <<>>)
         \o content_text_any_type(Tail(items))

\* content_text += content_item.get("text", "") for the items of type text.
RECURSIVE content_text_of(_)
content_text_of(items) ==
    IF items = <<>> THEN <<>>
    ELSE LET item == Head(items) IN
         (IF "type" \in DOMAIN item /\ item.type = "text"
          THEN (IF "text" \in DOMAIN item THEN item.text ELSE <<>>)
          ELSE <<>>)
         \o content_text_of(Tail(items))

\* json.dumps of one content item, and of the whole result, as tokens.
RECURSIVE json_items(_)
json_items(items) ==
    IF items = <<>> THEN <<>>
    ELSE LET item == Head(items) IN
         <<"{">>
         \o (IF "type" \in DOMAIN item THEN <<"type:", item.type>> ELSE <<>>)
         \o (IF "text" \in DOMAIN item THEN <<"text:">> \o item.text ELSE <<>>)
         \o <<"}">>
         \o json_items(Tail(items))

json_dumps(tool_result) ==
    <<"{">>
    \o (IF "content" \in DOMAIN tool_result
        THEN <<"content:", "[">> \o json_items(tool_result.content) \o <<"]">>
        ELSE <<>>)
    \o (IF "isError" \in DOMAIN tool_result
        THEN <<"isError:", IF tool_result.isError THEN "true" ELSE "false">>
        ELSE <<>>)
    \o <<"}">>

\* Mutant of format_tool_result_for_claude: no "or json.dumps(tool_result)".
format_without_fallback(tool_call_id, tool_result) ==
    [type |-> "tool_result",
     tool_use_id |-> tool_call_id,
     content |-> IF "content" \in DOMAIN tool_result
                 THEN content_text_of(tool_result.content) ELSE <<>>]

format_tool_result_for_claude(tool_call_id, tool_result) ==
    LET content_text ==
            IF "content" \in DOMAIN tool_result /\ tool_result.content # <<>>
            THEN content_text_of(tool_result.content)
            ELSE <<>>
    IN [type |-> "tool_result",
        tool_use_id |-> tool_call_id,
        content |-> IF content_text # <<>> THEN content_text
                    ELSE json_dumps(tool_result)]

\* ------------------------------------------------------------ state

VARIABLES
    \* MCPClient
    session,        \* self.session: "None" or "ClientSession"
    exit_stack,     \* the contexts self.exit_stack has entered, in order
    \* the world around the client
    requests,       \* the requests sent to the Tool Provider, in order
    initialized,    \* session.initialize() has returned a result
    acquired,       \* how often the stdio transport has been opened
    released,       \* how often the stdio transport has been closed
    cleanups,       \* how often MCPClient.cleanup has completed
    calls,          \* every finished MCPClient / call_claude call: its outcome
    gateway,        \* the requests handed to messages.create, in order
    \* run_poc_workflow
    pc,             \* the await (or return) the run is at
    user_query,
    messages,
    mcp_tools,
    claude_tools,
    planning_response,
    tool_calls,
    tool_results,
    synthesis_response,
    printed,        \* the answer text written to stdout, one entry per print
    exc,            \* the exception that left the try block, or "None"
    mcp_results,    \* what call_tool has returned in this run, in order
    phases,         \* the phases the run has entered, in order
    ops             \* calls made so far by the caller of ClientSpec

cvars == <<session, exit_stack, requests, initialized, acquired, released,
           cleanups>>

ovars == <<user_query, messages, mcp_tools, claude_tools, planning_response, tool_calls,
           tool_results, synthesis_response, printed, exc, mcp_results,
           phases>>

vars == <<cvars, calls, gateway, pc, ovars, ops>>

\* The stdio transport is open: entered and not yet exited.
TransportHeld == \E i \in 1..Len(exit_stack) : exit_stack[i] = "stdio_client"

\* The outcome of the call that finished last.
ret == calls[Len(calls)]

\* MCPClient.__init__ and ClaudeClient.__init__.
InitClient ==
    /\ session = "None"
    /\ exit_stack = <<>>
    /\ requests = <<>>
    /\ initialized = FALSE
    /\ acquired = 0
    /\ released = 0
    /\ cleanups = 0
    /\ calls = <<>>
    /\ gateway = <<>>

\* The locals of run_poc_workflow when the try block is entered.
InitRun ==
    /\ user_query \in UserQueries
    /\ messages = <<>>
    /\ mcp_tools = <<>>
    /\ claude_tools = <<>>
    /\ planning_response = None
    /\ tool_calls = <<>>
    /\ tool_results = <<>>
    /\ synthesis_response = None
    /\ printed = <<>>
    /\ exc = "None"
    /\ mcp_results = <<>>
    /\ phases = <<>>
    /\ ops = 0

\* ------------------------------------------------------------ MCPClient

Finished(op, out) == calls' = Append(calls, [op |-> op] @@ out)

\* connect, first await: enter stdio_client(server_params).
connect_stdio(out) ==
    /\ IF out = "ok"
       THEN /\ exit_stack' = Append(exit_stack, "stdio_client")
            /\ acquired' = acquired + 1
            /\ UNCHANGED calls
       ELSE /\ Finished("connect", [status |-> out])
            /\ UNCHANGED <<exit_stack, acquired>>
    /\ UNCHANGED <<session, requests, initialized, released, cleanups>>

\* connect, second await: self.session = enter ClientSession(stdio, write).
connect_session(out) ==
    /\ IF out = "ok"
       THEN /\ exit_stack' = Append(exit_stack, "ClientSession")
            /\ session' = "ClientSession"
            /\ UNCHANGED calls
       ELSE /\ Finished("connect", [status |-> out])
            /\ UNCHANGED <<exit_stack, session>>
    /\ UNCHANGED <<requests, initialized, acquired, released, cleanups>>

\* connect, third await: init_result = await self.session.initialize().
connect_initialize(out) ==
    /\ requests' = Append(requests, [method |-> "initialize"])
    /\ initialized' = (out = "ok")
    /\ Finished("connect", [status |-> out])
    /\ UNCHANGED <<session, exit_stack, acquired, released, cleanups>>

\* What a request sent now may be answered with: a closed channel only fails.
Answers(values) ==
    {[status |-> e] : e \in RequestErrors}
    \cup (IF TransportHeld
          THEN {[status |-> "ok", value |-> v] : v \in values}
          ELSE {})

list_tools(out) ==
    IF session = "None"
    THEN /\ Finished("list_tools", [status |-> "RuntimeError"])
         /\ UNCHANGED cvars
    ELSE /\ requests' = Append(requests, [method |-> "tools/list"])
         /\ Finished("list_tools", out)
         /\ UNCHANGED <<session, exit_stack, initialized, acquired, released,
                        cleanups>>

call_tool(tool_name, arguments, out) ==
    IF session = "None"
    THEN /\ Finished("call_tool", [status |-> "RuntimeError"])
         /\ UNCHANGED cvars
    ELSE /\ requests' = Append(requests, [method |-> "tools/call",
                                          name |-> tool_name,
                                          arguments |-> arguments])
         /\ Finished("call_tool", out)
         /\ UNCHANGED <<session, exit_stack, initialized, acquired, released,
                        cleanups>>

\* await self.exit_stack.aclose(): exits what was entered, in reverse order.
cleanup ==
    /\ exit_stack' = <<>>
    /\ released' = IF TransportHeld THEN released + 1 ELSE released
    /\ cleanups' = cleanups + 1
    /\ UNCHANGED <<session, requests, initialized, acquired>>

\* ------------------------------------------------------------ call_claude

ModelAnswers ==
    {[status |-> e] : e \in ModelErrors}
    \cup {[status |-> "ok", value |-> r] : r \in Responses}

\* Mutant of call_claude: a failed request is sent once more.
call_claude_retry(msgs, tools, max_tokens, out) ==
    /\ gateway' =
          IF out.status = "ok"
          THEN Append(gateway, call_claude_kwargs(msgs, tools, max_tokens))
          ELSE gateway \o <<call_claude_kwargs(msgs, tools, max_tokens),
                            call_claude_kwargs(msgs, tools, max_tokens)>>
    /\ calls' = Append(calls, [op |-> "call_claude"] @@ out)

\* response = self.client.messages.create(**kwargs); return response_dict
call_claude(msgs, tools, max_tokens, out) ==
    /\ gateway' = Append(gateway, call_claude_kwargs(msgs, tools, max_tokens))
    /\ Finished("call_claude", out)

\* ------------------------------------------------------------ run_poc_workflow

\* Mutant of Raise: no finally clause, the exception leaves the run at once.
Raise_skips_finally(e) == pc' = "done" /\ exc' = e

\* An exception leaves the try block: the finally clause runs next.
Raise(e) == pc' = "finally" /\ exc' = e

Enter(phase) == phases' = Append(phases, phase)

\* Mutant of NoToolsSelected: the early return is missing.
NoToolsSelected_never(calls_) == FALSE

\* if not tool_calls: ... return
NoToolsSelected(calls_) == calls_ = <<>>

\* Mutant of loop_next: the loop ends one turn early.
loop_next_off_by_one(calls_, results) ==
    IF Len(results) + 1 < Len(calls_) THEN "execute" ELSE "synthesize"

\* "for tool_call in tool_calls": the next turn, or the statement after it.
loop_next(calls_, results) ==
    IF Len(results) < Len(calls_) THEN "execute" ELSE "synthesize"

\* Mutant of text_blocks: the loop stops after the first text block.
text_blocks_first(content) ==
    LET tb == SelectSeq(content, LAMBDA b : b.type = "text")
    IN IF tb = <<>> THEN <<>> ELSE <<tb[1].text>>

\* The text of the text blocks of a content list, one entry per print.
RECURSIVE text_blocks(_)
text_blocks(content) ==
    IF content = <<>> THEN <<>>
    ELSE (IF Head(content).type = "text" THEN <<Head(content).text>> ELSE <<>>)
         \o text_blocks(Tail(content))

\* Mutant of final_text_of: "=" in place of "+=", the last text block wins.
final_text_last(content) ==
    LET tb == SelectSeq(content, LAMBDA b : b.type = "text")
    IN IF tb = <<>> THEN <<>> ELSE tb[Len(tb)].text

\* final_text = ""; for block in content: if text: final_text += block["text"]
RECURSIVE final_text_of(_)
final_text_of(content) ==
    IF content = <<>> THEN <<>>
    ELSE (IF Head(content).type = "text" THEN Head(content).text ELSE <<>>)
         \o final_text_of(Tail(content))

\* Mutant of synthesis_messages: the assistant's tool use is not appended.
synthesis_messages_no_echo(msgs, planning, results) ==
    msgs \o <<[role |-> "user", content |-> results]>>

\* messages.append(assistant's tool use); messages.append(tool results)
synthesis_messages(msgs, planning, results) ==
    msgs \o <<[role |-> "assistant", content |-> planning.content],
              [role |-> "user", content |-> results]>>

\* Phase 1, mcp_client.connect: the three awaits of MCPClient.connect.
RunConnectStdio ==
    /\ pc = "connect_stdio"
    /\ \E out \in {"ok"} \cup RequestErrors :
          /\ connect_stdio(out)
          /\ IF out = "ok"
             THEN pc' = "connect_session" /\ UNCHANGED exc
             ELSE Raise(out)
    /\ Enter("Init")
    /\ UNCHANGED <<user_query, messages, mcp_tools, claude_tools,
                   planning_response,
                   tool_calls, tool_results, synthesis_response, printed,
                   gateway, mcp_results, ops>>

RunConnectSession ==
    /\ pc = "connect_session"
    /\ \E out \in {"ok"} \cup RequestErrors :
          /\ connect_session(out)
          /\ IF out = "ok"
             THEN pc' = "connect_initialize" /\ UNCHANGED exc
             ELSE Raise(out)
    /\ UNCHANGED <<user_query, messages, mcp_tools, claude_tools,
                   planning_response,
                   tool_calls, tool_results, synthesis_response, printed,
                   gateway, mcp_results, phases, ops>>

\* Mutant of RunConnectInitialize: a failed handshake is swallowed.
RunConnectInitialize_swallow ==
    /\ pc = "connect_initialize"
    /\ \E out \in {"ok"} \cup RequestErrors : connect_initialize(out)
    /\ pc' = "list_tools"
    /\ UNCHANGED <<user_query, messages, mcp_tools, claude_tools,
                   planning_response, tool_calls, tool_results,
                   synthesis_response, printed, gateway, mcp_results, phases,
                   exc, ops>>

RunConnectInitialize ==
    /\ pc = "connect_initialize"
    /\ \E out \in {"ok"} \cup RequestErrors :
          /\ connect_initialize(out)
          /\ IF out = "ok"
             THEN pc' = "list_tools" /\ UNCHANGED exc
             ELSE Raise(out)
    /\ UNCHANGED <<user_query, messages, mcp_tools, claude_tools,
                   planning_response,
                   tool_calls, tool_results, synthesis_response, printed,
                   gateway, mcp_results, phases, ops>>

\* Mutant of RunDiscover: a failed list_tools is swallowed, no tools are used.
RunDiscover_swallow ==
    /\ pc = "list_tools"
    /\ \E out \in Answers(ToolLists) :
          /\ list_tools(out)
          /\ mcp_tools' =
                IF calls'[Len(calls')].status = "ok"
                THEN calls'[Len(calls')].value ELSE <<>>
          /\ claude_tools' = convert_mcp_tools_to_claude_format(mcp_tools')
    /\ pc' = "plan"
    /\ phases' = Append(phases, "Discover")
    /\ UNCHANGED <<user_query, messages, planning_response, tool_calls,
                   tool_results, synthesis_response, printed, gateway,
                   mcp_results, exc, ops>>

\* Phase 2: mcp_tools = await mcp_client.list_tools(); claude_tools = convert.
RunDiscover ==
    /\ pc = "list_tools"
    /\ \E out \in Answers(ToolLists) :
          /\ list_tools(out)
          /\ IF ret'.status = "ok"
             THEN /\ mcp_tools' = ret'.value
                  /\ claude_tools' =
                        convert_mcp_tools_to_claude_format(mcp_tools')
                  /\ pc' = "plan"
                  /\ UNCHANGED exc
             ELSE /\ Raise(ret'.status)
                  /\ UNCHANGED <<mcp_tools, claude_tools>>
    /\ Enter("Discover")
    /\ UNCHANGED <<user_query, messages, planning_response, tool_calls,
                   tool_results, synthesis_response, printed, gateway,
                   mcp_results, ops>>

\* Phase 3: the first call_claude, extract_tool_calls, and the early return.
RunPlan ==
    /\ pc = "plan"
    /\ messages' = <<[role |-> "user", content |-> user_query]>>
    /\ \E out \in ModelAnswers :
          /\ call_claude(messages', claude_tools, 1024, out)
          /\ IF out.status = "ok"
             THEN /\ planning_response' = out.value
                  /\ tool_calls' = extract_tool_calls(out.value)
                  /\ UNCHANGED exc
                  /\ IF NoToolsSelected(tool_calls')
                     THEN /\ printed' = text_blocks(out.value.content)
                          /\ pc' = "finally"
                     ELSE /\ pc' = loop_next(tool_calls', <<>>)
                          /\ UNCHANGED printed
             ELSE /\ Raise(out.status)
                  /\ UNCHANGED <<planning_response, tool_calls, printed>>
    /\ Enter("Plan")
    /\ UNCHANGED <<cvars, user_query, mcp_tools, claude_tools, tool_results,
                   synthesis_response, mcp_results, ops>>

\* Mutant of ExecuteCall: the loop is left (break) after an isError result.
ExecuteCall_break_on_isError(tool_call, out) ==
    /\ call_tool(tool_call.name, tool_call.input, out)
    /\ IF calls'[Len(calls')].status = "ok"
       THEN /\ mcp_results' = Append(mcp_results, calls'[Len(calls')].value)
            /\ tool_results' =
                  Append(tool_results,
                         format_tool_result_for_claude(
                            tool_call.id, calls'[Len(calls')].value))
            /\ pc' = IF calls'[Len(calls')].value.isError THEN "synthesize"
                     ELSE IF Len(tool_results') < Len(tool_calls)
                          THEN "execute" ELSE "synthesize"
            /\ UNCHANGED exc
       ELSE /\ pc' = "finally"
            /\ exc' = calls'[Len(calls')].status
            /\ UNCHANGED <<mcp_results, tool_results>>

\* Mutant of ExecuteCall: an isError result is raised as an exception.
ExecuteCall_raise_on_isError(tool_call, out) ==
    /\ call_tool(tool_call.name, tool_call.input, out)
    /\ IF /\ calls'[Len(calls')].status = "ok"
          /\ ~calls'[Len(calls')].value.isError
       THEN /\ mcp_results' = Append(mcp_results, calls'[Len(calls')].value)
            /\ tool_results' =
                  Append(tool_results,
                         format_tool_result_for_claude(
                            tool_call.id, calls'[Len(calls')].value))
            /\ pc' = IF Len(tool_results') < Len(tool_calls)
                     THEN "execute" ELSE "synthesize"
            /\ UNCHANGED exc
       ELSE /\ pc' = "finally"
            /\ exc' = IF calls'[Len(calls')].status = "ok"
                      THEN "CapabilityExecutionError"
                      ELSE calls'[Len(calls')].status
            /\ UNCHANGED <<mcp_results, tool_results>>

\* Mutant of ExecuteCall: the requests of all calls are sent in the first
\* turn (asyncio.gather), the results are taken one per turn.
ExecuteCall_all_at_once(tool_call, out) ==
    /\ requests' =
          IF tool_results = <<>>
          THEN requests \o [k \in 1..Len(tool_calls) |->
                              [method |-> "tools/call",
                               name |-> tool_calls[k].name,
                               arguments |-> tool_calls[k].input]]
          ELSE requests
    /\ calls' = Append(calls, [op |-> "call_tool"] @@ out)
    /\ UNCHANGED <<session, exit_stack, initialized, acquired, released,
                   cleanups>>
    /\ IF out.status = "ok"
       THEN /\ mcp_results' = Append(mcp_results, out.value)
            /\ tool_results' =
                  Append(tool_results,
                         format_tool_result_for_claude(tool_call.id,
                                                       out.value))
            /\ pc' = IF Len(tool_results') < Len(tool_calls)
                     THEN "execute" ELSE "synthesize"
            /\ UNCHANGED exc
       ELSE /\ pc' = "finally"
            /\ exc' = out.status
            /\ UNCHANGED <<mcp_results, tool_results>>

\* Mutant of ExecuteCall: an exception of call_tool is caught and turned into
\* an isError result (try / except around the call).
ExecuteCall_catches(tool_call, out) ==
    /\ call_tool(tool_call.name, tool_call.input, out)
    /\ LET result == IF calls'[Len(calls')].status = "ok"
                     THEN calls'[Len(calls')].value
                     ELSE [content |-> <<>>, isError |-> TRUE]
       IN /\ mcp_results' = Append(mcp_results, result)
          /\ tool_results' =
                Append(tool_results,
                       format_tool_result_for_claude(tool_call.id, result))
          /\ pc' = IF Len(tool_results') < Len(tool_calls)
                   THEN "execute" ELSE "synthesize"
          /\ UNCHANGED exc

\* Phase 4, one turn of the loop: call_tool, then format and append.
ExecuteCall(tool_call, out) ==
    /\ call_tool(tool_call.name, tool_call.input, out)
    /\ IF ret'.status = "ok"
       THEN /\ mcp_results' = Append(mcp_results, ret'.value)
            /\ tool_results' =
                  Append(tool_results,
                         format_tool_result_for_claude(tool_call.id,
                                                       ret'.value))
            /\ pc' = loop_next(tool_calls, tool_results')
            /\ UNCHANGED exc
       ELSE /\ Raise(ret'.status)
            /\ UNCHANGED <<mcp_results, tool_results>>

RunExecute ==
    /\ pc = "execute"
    /\ \E out \in Answers(ToolResults) :
          ExecuteCall(tool_calls[Len(tool_results) + 1], out)
    /\ phases' = IF tool_results = <<>> THEN Append(phases, "Execute")
                 ELSE phases
    /\ UNCHANGED <<user_query, messages, mcp_tools, claude_tools,
                   planning_response,
                   tool_calls, synthesis_response, printed, gateway, ops>>

\* Phase 5: the two appends, the second call_claude, and the final text.
\* Mutant of RunSynthesize: tool_use blocks of the synthesis response are
\* executed in one more round before the answer is written.
RunSynthesize_executes ==
    /\ pc = "synthesize"
    /\ messages' = synthesis_messages(messages, planning_response,
                                      tool_results)
    /\ \E out \in ModelAnswers :
          /\ call_claude(messages', claude_tools, 1024, out)
          /\ IF out.status = "ok"
             THEN /\ synthesis_response' = out.value
                  /\ IF /\ extract_tool_calls(out.value) # <<>>
                        /\ Len(gateway) = 1
                     THEN /\ tool_calls' = extract_tool_calls(out.value)
                          /\ tool_results' = <<>>
                          /\ mcp_results' = <<>>
                          /\ pc' = "execute"
                          /\ UNCHANGED printed
                     ELSE /\ printed' = <<final_text_of(out.value.content)>>
                          /\ pc' = "finally"
                          /\ UNCHANGED <<tool_calls, tool_results,
                                         mcp_results>>
                  /\ UNCHANGED exc
             ELSE /\ Raise(out.status)
                  /\ UNCHANGED <<synthesis_response, printed, tool_calls,
                                 tool_results, mcp_results>>
    /\ Enter("Synthesize")
    /\ UNCHANGED <<cvars, user_query, mcp_tools, claude_tools,
                   planning_response, ops>>

RunSynthesize ==
    /\ pc = "synthesize"
    /\ messages' = synthesis_messages(messages, planning_response,
                                      tool_results)
    /\ \E out \in ModelAnswers :
          /\ call_claude(messages', claude_tools, 1024, out)
          /\ IF out.status = "ok"
             THEN /\ synthesis_response' = out.value
                  /\ printed' = <<final_text_of(out.value.content)>>
                  /\ pc' = "finally"
                  /\ UNCHANGED exc
             ELSE /\ Raise(out.status)
                  /\ UNCHANGED <<synthesis_response, printed>>
    /\ Enter("Synthesize")
    /\ UNCHANGED <<cvars, user_query, mcp_tools, claude_tools, planning_response,
                   tool_calls, tool_results, mcp_results, ops>>

\* finally: await mcp_client.cleanup(); then the return, or the re-raise.
RunFinally ==
    /\ pc = "finally"
    /\ cleanup
    /\ pc' = "done"
    /\ UNCHANGED <<calls, gateway, ovars, ops>>

Init == InitClient /\ InitRun /\ pc = "connect_stdio"

Next ==
    \/ RunConnectStdio
    \/ RunConnectSession
    \/ RunConnectInitialize
    \/ RunDiscover
    \/ RunPlan
    \/ RunExecute
    \/ RunSynthesize
    \/ RunFinally

Spec == Init /\ [][Next]_vars

\* asyncio.run(run_poc_workflow(query)) drives the coroutine until it
\* returns or raises: a step that can be taken is taken (every awaited call
\* is taken to return or to raise).
FairSpec == Spec /\ WF_vars(Next)

\* ------------------------------------------------------------ ClientSpec
\* One MCPClient used through its public methods by an arbitrary caller: one
\* task runs connect, await by await, while list_tools, call_tool and cleanup
\* are called at any moment (cleanup not in the middle of connect).

ClientConnectStdio ==
    /\ pc = "idle"
    /\ \E out \in {"ok"} \cup RequestErrors :
          /\ connect_stdio(out)
          /\ pc' = IF out = "ok" THEN "connect_session" ELSE "connect_failed"
    /\ UNCHANGED <<gateway, ovars, ops>>

ClientConnectSession ==
    /\ pc = "connect_session"
    /\ \E out \in {"ok"} \cup RequestErrors :
          /\ connect_session(out)
          /\ pc' = IF out = "ok" THEN "connect_initialize" ELSE "connect_failed"
    /\ UNCHANGED <<gateway, ovars, ops>>

ClientConnectInitialize ==
    /\ pc = "connect_initialize"
    /\ \E out \in {"ok"} \cup RequestErrors :
          /\ connect_initialize(out)
          /\ pc' = IF out = "ok" THEN "connected" ELSE "connect_failed"
    /\ UNCHANGED <<gateway, ovars, ops>>

ClientListTools ==
    /\ ops < MaxOps
    /\ \E out \in Answers(ToolLists) : list_tools(out)
    /\ ops' = ops + 1
    /\ UNCHANGED <<gateway, pc, ovars>>

ClientCallTool ==
    /\ ops < MaxOps
    /\ \E block \in ToolUseBlocks, out \in Answers(ToolResults) :
          call_tool(block.name, block.input, out)
    /\ ops' = ops + 1
    /\ UNCHANGED <<gateway, pc, ovars>>

ClientCleanup ==
    /\ ops < MaxOps
    /\ pc \in {"idle", "connected", "connect_failed"}
    /\ cleanup
    /\ Finished("cleanup", [status |-> "ok"])
    /\ ops' = ops + 1
    /\ UNCHANGED <<gateway, pc, ovars>>

ClientInit == InitClient /\ InitRun /\ pc = "idle"

ClientNext ==
    \/ ClientConnectStdio
    \/ ClientConnectSession
    \/ ClientConnectInitialize
    \/ ClientListTools
    \/ ClientCallTool
    \/ ClientCleanup

ClientSpec == ClientInit /\ [][ClientNext]_vars

\* ------------------------------------------------------------ claims

\* The tools/call requests sent so far, in order.
CallRequests == SelectSeq(requests, LAMBDA r : r.method = "tools/call")

\* The tool_use blocks of the planning response, in order.
PlannedToolUses ==
    IF planning_response = None THEN <<>>
    ELSE SelectSeq(planning_response.content, LAMBDA b : b.type = "tool_use")

\* The text of the text blocks of the planning response, in order.
PlannedTexts ==
    LET tb == SelectSeq(planning_response.content, LAMBDA b : b.type = "text")
    IN [i \in 1..Len(tb) |-> tb[i].text]

\* How many call_claude calls have finished.
ModelCalls == Len(SelectSeq(calls, LAMBDA c : c.op = "call_claude"))

\* The run is over, or only the finally clause is left.
Leaving == pc \in {"finally", "done"}

\* C1: while initialize() has not completed successfully (never called, in
\* progress, or failed), a call of list_tools or call_tool fails with the
\* not-connected RuntimeError and sends no request to the Tool Provider.
C1_NotReadyBeforeInitialize ==
    [][(/\ ops' = ops + 1
        /\ calls'[Len(calls')].op \in {"list_tools", "call_tool"}
        /\ ~initialized)
       => (/\ calls'[Len(calls')].status = "RuntimeError"
           /\ requests' = requests)]_vars

\* C2: a run performs cleanup exactly once, after which the transport opened
\* by connect is closed: opened at most once, closed as often as opened, and
\* never closed before the run is over.
C2_TransportReleasedOnce ==
    /\ acquired <= 1
    /\ released <= acquired
    /\ pc # "done" => (cleanups = 0 /\ released = 0)
    /\ pc = "done" => (cleanups = 1 /\ released = acquired /\ ~TransportHeld)

C2_Witness ==
    /\ pc = "done"
    /\ exc \in ModelErrors
    /\ acquired = 1
    /\ released = 1

\* C3: when the call list extracted from the planning response is empty, the
\* Model Service is not called a second time: the run goes from Plan straight
\* to its end, with no tools/call request and no Synthesize.
C3_NoSecondModelCall ==
    (planning_response # None /\ tool_calls = <<>>)
    => (/\ Len(gateway) = 1
        /\ ModelCalls = 1
        /\ CallRequests = <<>>
        /\ Leaving
        /\ exc = "None"
        /\ phases = <<"Init", "Discover", "Plan">>)

C3_Witness ==
    /\ pc = "done"
    /\ planning_response # None
    /\ Len(planning_response.content) = 2
    /\ tool_calls = <<>>

\* C4: when the planning response holds no tool_use block, the answer written
\* is the text of its text blocks, in order, and call_tool is never called.
C4_PlainAnswer ==
    (planning_response # None /\ PlannedToolUses = <<>>)
    => (/\ printed = PlannedTexts
        /\ CallRequests = <<>>
        /\ mcp_results = <<>>
        /\ \A i \in 1..Len(calls) : calls[i].op # "call_tool")

C4_Witness ==
    /\ pc = "done"
    /\ planning_response # None
    /\ PlannedToolUses = <<>>
    /\ printed = << <<"b">>, <<"a">> >>

\* C5: the second request to the Model Service carries exactly three messages:
\* the user query, the assistant message with the planning response's content
\* unchanged, and one user message with all tool_result blocks in order.
C5_SynthesisConversation ==
    Len(gateway) >= 2
    => LET m == gateway[2].messages IN
       /\ Len(m) = 3
       /\ m[1] = [role |-> "user", content |-> user_query]
       /\ m[2] = [role |-> "assistant", content |-> planning_response.content]
       /\ m[3].role = "user"
       /\ m[3].content = tool_results
       /\ Len(m[3].content) = Len(PlannedToolUses)
       /\ \A k \in 1..Len(m[3].content) : m[3].content[k].type = "tool_result"

C5_Witness ==
    /\ Len(gateway) = 2
    /\ Len(tool_results) = 2
    /\ Len(PlannedToolUses) = 2

\* C6: the tools/call requests follow the tool_use blocks of the planning
\* response one to one: the k-th request carries the name and input of the
\* k-th block, none is added, repeated or reordered; once Execute has finished
\* there are as many requests as blocks, and the k-th tool_result block of the
\* synthesis message carries the id of the k-th block.
C6_CallsMatchToolUses ==
    /\ Len(CallRequests) <= Len(PlannedToolUses)
    /\ \A k \in 1..Len(CallRequests) :
          /\ CallRequests[k].name = PlannedToolUses[k].name
          /\ CallRequests[k].arguments = PlannedToolUses[k].input
    /\ Len(gateway) >= 2
       => LET results == gateway[2].messages[3].content IN
          /\ Len(CallRequests) = Len(PlannedToolUses)
          /\ Len(results) = Len(PlannedToolUses)
          /\ \A k \in 1..Len(results) :
                results[k].tool_use_id = PlannedToolUses[k].id

C6_Witness ==
    /\ Len(gateway) = 2
    /\ Len(PlannedToolUses) = 2
    /\ PlannedToolUses[1].id = "toolu_2"
    /\ PlannedToolUses[2].id = "toolu_1"

\* C7, as claimed: no failure of a call_tool call, whether raised or returned
\* as an isError result, aborts the batch: the run goes on with the next call
\* or with Synthesize, and the failed call has its tool_result block.
C7_AnyFailureStaysInBatch ==
    (/\ calls # <<>>
     /\ ret.op = "call_tool"
     /\ (ret.status # "ok" \/ ret.value.isError))
    => (/\ exc = "None"
        /\ pc \in {"execute", "synthesize"}
        /\ Len(tool_results) = Len(CallRequests))

\* C7, amended: a failure returned as an isError result does not abort the
\* batch: the remaining calls are still issued, and its tool_result block is
\* in the synthesis message; a failure that call_tool raises aborts the batch:
\* no later call is issued and the Model Service is not called again.
C7_ErrorResultsStayInBatch ==
    /\ (calls # <<>> /\ ret.op = "call_tool" /\ ret.status = "ok"
        /\ ret.value.isError)
       => (/\ exc = "None"
           /\ pc = IF Len(CallRequests) < Len(tool_calls)
                   THEN "execute" ELSE "synthesize")
    /\ \A k \in 1..Len(mcp_results) :
          mcp_results[k].isError
          => (/\ tool_results[k] =
                    format_tool_result_for_claude(PlannedToolUses[k].id,
                                                  mcp_results[k])
              /\ Len(gateway) >= 2
                 => (/\ Len(CallRequests) = Len(PlannedToolUses)
                     /\ gateway[2].messages[3].content[k] = tool_results[k]))
    /\ (calls # <<>> /\ ret.op = "call_tool" /\ ret.status # "ok")
       => (/\ Leaving
           /\ exc = ret.status
           /\ Len(gateway) = 1
           /\ Len(CallRequests) = Len(tool_results) + 1)

C7_Witness ==
    /\ Len(gateway) = 2
    /\ Len(mcp_results) = 2
    /\ mcp_results[1].isError
    /\ ~mcp_results[2].isError

\* C8: a result returned with isError = TRUE raises nothing: it is formatted
\* and appended like any result, the exception that ends a run is always one
\* that a call raised, and a run with such a result that ends without an
\* exception has called the Model Service twice and written its final text.
C8_IsErrorNotRaised ==
    /\ (calls # <<>> /\ ret.op = "call_tool" /\ ret.status = "ok"
        /\ ret.value.isError)
       => (/\ exc = "None"
           /\ ~Leaving
           /\ tool_results[Len(tool_results)].type = "tool_result"
           /\ Len(tool_results) = Len(mcp_results))
    /\ exc # "None" => (calls # <<>> /\ ret.status = exc)
    /\ (pc = "done" /\ exc = "None"
        /\ \E k \in 1..Len(mcp_results) : mcp_results[k].isError)
       => (/\ Len(gateway) = 2
           /\ synthesis_response # None
           /\ Len(printed) = 1)

C8_Witness ==
    /\ pc = "done"
    /\ exc = "None"
    /\ Len(mcp_results) = 2
    /\ mcp_results[1].isError
    /\ mcp_results[2].isError
    /\ Len(printed) = 1

\* C9: when connect or list_tools fails, the run aborts: it is the last call
\* made, the Model Service is never called, call_tool is never called, and
\* nothing is written as an answer; the exception leaves the run.
C9_InitDiscoverFailureAborts ==
    \A i \in 1..Len(calls) :
       (calls[i].op \in {"connect", "list_tools"} /\ calls[i].status # "ok")
       => (/\ i = Len(calls)
           /\ gateway = <<>>
           /\ CallRequests = <<>>
           /\ planning_response = None
           /\ printed = <<>>
           /\ Leaving
           /\ exc = calls[i].status)

C9_Witness ==
    /\ pc = "done"
    /\ calls # <<>>
    /\ ret.op = "list_tools"
    /\ ret.status = "TransportError"
    /\ initialized

\* C10: a failure of the Model Service in Plan or Synthesize is fatal and not
\* retried: the failing call_claude sent one request and is the last call of
\* the run, its exception leaves the run, nothing is written as an answer, and
\* after a failure in Plan no tools/call request is ever sent.
C10_ModelFailureFatal ==
    \A i \in 1..Len(calls) :
       (calls[i].op = "call_claude" /\ calls[i].status # "ok")
       => (/\ i = Len(calls)
           /\ Len(gateway) = ModelCalls
           /\ printed = <<>>
           /\ Leaving
           /\ exc = calls[i].status
           /\ planning_response = None
              => (ModelCalls = 1 /\ CallRequests = <<>>)
           /\ planning_response # None
              => (ModelCalls = 2 /\ synthesis_response = None))

C10_Witness ==
    /\ pc = "done"
    /\ Len(gateway) = 2
    /\ calls # <<>>
    /\ ret.op = "call_claude"
    /\ ret.status = "ModelServiceError"

\* ------------------------------------------------------------ PureSpec
\* The three pure functions of ClaudeClient, each applied once to an input
\* drawn from a bounded set: pc says which one, and then that it has returned.

\* MCP tool definitions as dicts: description and inputSchema may be absent.
\* Tool.model_dump() of a tool the server lists without a description: the
\* key is there and its value is None.  A str is a sequence of characters;
\* None in a str-valued field is a sequence whose one element is no
\* character, so that it differs from every str, "" included.
description_None == <<"None">>

Descriptors ==
    LET names == {"get_weather", "calculate"}
        schema == [type |-> "object", properties |-> {"city"}]
    IN {[name |-> n] : n \in names}
       \cup {[name |-> n, description |-> <<"a">>] : n \in names}
       \cup {[name |-> n, inputSchema |-> schema] : n \in names}
       \cup {[name |-> n, description |-> <<"a">>, inputSchema |-> schema] :
                n \in names}
       \cup {[name |-> n, description |-> description_None,
              inputSchema |-> schema] : n \in names}

\* Response content with a block that is neither text nor tool_use.
PureBlocks == Blocks \cup {[type |-> "thinking", thinking |-> <<"a">>]}

PureResponses == {[content |-> c] : c \in SeqsUpTo(PureBlocks, MaxBlocks)}

\* Items of a tool result's content: text (possibly empty), an image, and
\* dicts that lack the text or the type key.
ContentItems ==
    {[type |-> "text", text |-> <<>>],
     [type |-> "text", text |-> <<"a">>],
     [type |-> "text", text |-> <<"b">>],
     [type |-> "image", data |-> <<"a">>],
     [type |-> "text"],
     [text |-> <<"a">>]}

PureResults ==
    {[isError |-> e] : e \in BOOLEAN}
    \cup {[content |-> c, isError |-> e] :
             c \in SeqsUpTo(ContentItems, MaxItems), e \in BOOLEAN}

PureInit ==
    /\ InitClient
    /\ user_query \in UserQueries
    /\ messages = <<>>
    /\ claude_tools = <<>>
    /\ tool_results = <<>>
    /\ synthesis_response = None
    /\ printed = <<>>
    /\ exc = "None"
    /\ phases = <<>>
    /\ ops = 0
    /\ \/ /\ pc = "translate"
          /\ mcp_tools \in SeqsUpTo(Descriptors, MaxTools)
          /\ planning_response = None
          /\ tool_calls = <<>>
          /\ mcp_results = <<>>
       \/ /\ pc = "extract"
          /\ mcp_tools = <<>>
          /\ planning_response \in PureResponses
          /\ tool_calls = <<>>
          /\ mcp_results = <<>>
       \/ /\ pc = "format"
          /\ mcp_tools = <<>>
          /\ planning_response = None
          /\ tool_calls \in {extract_tool_calls([content |-> <<b>>]) :
                                b \in ToolUseBlocks}
          /\ mcp_results \in {<<r>> : r \in PureResults}

PureTranslate ==
    /\ pc = "translate"
    /\ claude_tools' = convert_mcp_tools_to_claude_format(mcp_tools)
    /\ pc' = "translated"
    /\ UNCHANGED <<cvars, calls, gateway, user_query, messages, mcp_tools,
                   planning_response, tool_calls, tool_results,
                   synthesis_response, printed, exc, mcp_results, phases, ops>>

PureExtract ==
    /\ pc = "extract"
    /\ tool_calls' = extract_tool_calls(planning_response)
    /\ pc' = "extracted"
    /\ UNCHANGED <<cvars, calls, gateway, user_query, messages, mcp_tools,
                   claude_tools, planning_response, tool_results,
                   synthesis_response, printed, exc, mcp_results, phases, ops>>

PureFormat ==
    /\ pc = "format"
    /\ tool_results' =
          <<format_tool_result_for_claude(tool_calls[1].id, mcp_results[1])>>
    /\ pc' = "formatted"
    /\ UNCHANGED <<cvars, calls, gateway, user_query, messages, mcp_tools,
                   claude_tools, planning_response, tool_calls,
                   synthesis_response, printed, exc, mcp_results, phases, ops>>

PureNext ==
    \/ PureTranslate
    \/ PureExtract
    \/ PureFormat

PureSpec == PureInit /\ [][PureNext]_vars

\* ------------------------------------------------------------ claims, continued

\* C11: convert_mcp_tools_to_claude_format returns as many tool definitions
\* as it is given, the i-th with the name of the i-th input.
C11_TranslateKeepsNames ==
    pc = "translated"
    => (/\ Len(claude_tools) = Len(mcp_tools)
        /\ \A i \in 1..Len(mcp_tools) : claude_tools[i].name = mcp_tools[i].name)

C11_Witness ==
    /\ pc = "translated"
    /\ Len(mcp_tools) = 2
    /\ mcp_tools[1].name = "get_weather"
    /\ mcp_tools[2].name = "calculate"
    /\ DOMAIN mcp_tools[1] = {"name"}

\* The text-kind entries of a tool result's content that carry a text.
TextEntries(tool_result) ==
    IF "content" \in DOMAIN tool_result
    THEN SelectSeq(tool_result.content,
                   LAMBDA it : /\ "type" \in DOMAIN it
                               /\ it.type = "text"
                               /\ "text" \in DOMAIN it)
    ELSE <<>>

\* The values of a sequence of entries, joined in order.
RECURSIVE JoinText(_)
JoinText(entries) ==
    IF entries = <<>> THEN <<>>
    ELSE Head(entries).text \o JoinText(Tail(entries))

\* C13: format_tool_result_for_claude returns a tool_result block with the
\* given call id whose content is the values of the text-kind entries of the
\* result joined in order, entries of other kinds skipped (the case of an
\* empty join is C14's); one text entry "X" gives the content "X".
C13_FormatConcatenatesText ==
    pc = "formatted"
    => LET result == mcp_results[1]
           block == tool_results[1]
       IN /\ DOMAIN block = {"type", "tool_use_id", "content"}
          /\ block.type = "tool_result"
          /\ block.tool_use_id = tool_calls[1].id
          /\ JoinText(TextEntries(result)) # <<>>
             => block.content = JoinText(TextEntries(result))
          /\ \A x \in Texts :
                ("content" \in DOMAIN result
                 /\ result.content = <<[type |-> "text", text |-> x]>>)
                => block.content = x

C13_Witness ==
    /\ pc = "formatted"
    /\ "content" \in DOMAIN mcp_results[1]
    /\ mcp_results[1].content =
          <<[type |-> "text", text |-> <<"b">>], [text |-> <<"a">>]>>
    /\ tool_results[1].content = <<"b">>
    /\ tool_calls[1].id = "toolu_2"

\* C14: the content of the block is never the empty string: when the join of
\* the text entries is empty (no content key, no entries, no text-kind
\* entries, or only empty ones), it is the serialization of the whole result.
C14_FormatNeverEmpty ==
    pc = "formatted"
    => LET result == mcp_results[1]
           block == tool_results[1]
       IN /\ block.content # <<>>
          /\ JoinText(TextEntries(result)) = <<>>
             => (/\ block.content = json_dumps(result)
                 /\ Len(block.content) >= 2)

C14_Witness ==
    /\ pc = "formatted"
    /\ mcp_results[1] =
          [content |-> <<[type |-> "text", text |-> <<>>],
                         [type |-> "image", data |-> <<"a">>]>>,
           isError |-> TRUE]
    /\ tool_results[1].content # <<>>

\* C20: extract_tool_calls returns one call per tool_use block of the
\* response content, in the same order, each with exactly the id, name and
\* input of its block; blocks of other kinds give nothing, and so a response
\* without tool_use blocks gives the empty list.
C20_ExtractProjectsToolUses ==
    pc = "extracted"
    => LET uses == SelectSeq(planning_response.content,
                             LAMBDA b : b.type = "tool_use")
       IN /\ Len(tool_calls) = Len(uses)
          /\ \A k \in 1..Len(uses) :
                tool_calls[k] = [id |-> uses[k].id, name |-> uses[k].name,
                                 input |-> uses[k].input]
          /\ (\A i \in 1..Len(planning_response.content) :
                 planning_response.content[i].type # "tool_use")
             => tool_calls = <<>>

C20_Witness ==
    /\ pc = "extracted"
    /\ Len(planning_response.content) = 2
    /\ planning_response.content[1].type = "thinking"
    /\ planning_response.content[2].type = "tool_use"
    /\ Len(tool_calls) = 1
    /\ tool_calls[1].id = planning_response.content[2].id

\* C15, the part about close: after cleanup a call of list_tools or call_tool
\* fails with the not-connected RuntimeError and sends no request (the states
\* before initialize has succeeded are C1's).
C15_RejectedAfterClose ==
    [][(/\ ops' = ops + 1
        /\ calls'[Len(calls')].op \in {"list_tools", "call_tool"}
        /\ cleanups > 0)
       => (/\ calls'[Len(calls')].status = "RuntimeError"
           /\ requests' = requests)]_vars

\* The phases in the order of the workflow.
PhaseOrder == <<"Init", "Discover", "Plan", "Execute", "Synthesize">>

\* The place in PhaseOrder of the phase that makes the i-th call of the run.
CallPhase(i) ==
    CASE calls[i].op = "connect" -> 1
      [] calls[i].op = "list_tools" -> 2
      [] calls[i].op = "call_tool" -> 4
      [] OTHER -> IF \E j \in 1..(i - 1) : calls[j].op = "call_claude"
                  THEN 5 ELSE 3

\* C16: the phases are entered in the order Init, Discover, Plan, Execute,
\* Synthesize, each at most once and none skipped, the run ending after Plan
\* or after Synthesize; a call is made only when every call before it has
\* succeeded, and Synthesize is entered only when every tool call has its
\* result.
C16_PhaseOrder ==
    /\ Len(phases) <= Len(PhaseOrder)
    /\ \A i \in 1..Len(phases) : phases[i] = PhaseOrder[i]
    /\ calls # <<>> => CallPhase(1) = 1
    /\ \A i \in 1..(Len(calls) - 1) :
          /\ calls[i].status = "ok"
          /\ CallPhase(i) <= CallPhase(i + 1)
          /\ CallPhase(i + 1) <= CallPhase(i) + 1
          /\ CallPhase(i) = CallPhase(i + 1) => CallPhase(i) = 4
    /\ Len(phases) >= 4 => tool_calls # <<>>
    /\ Len(phases) = 5 => Len(mcp_results) = Len(tool_calls)
    /\ (pc = "done" /\ exc = "None") => Len(phases) \in {3, 5}

C16_Witness ==
    /\ pc = "done"
    /\ exc = "None"
    /\ phases = PhaseOrder
    /\ Len(tool_calls) = 2

\* C17: the tools/call requests are sent one at a time, the request of call
\* k+1 only when call k has returned and its tool_result block is appended.
C17_SequentialExecution ==
    [][Len(CallRequests') > Len(CallRequests)
       => (/\ Len(CallRequests') = Len(CallRequests) + 1
           /\ Len(mcp_results) = Len(CallRequests)
           /\ Len(tool_results) = Len(CallRequests)
           /\ \A k \in 1..Len(CallRequests) :
                 tool_results[k].tool_use_id = tool_calls[k].id)]_vars

C17_Witness ==
    /\ Len(CallRequests) = 2
    /\ Len(tool_results) = 2
    /\ CallRequests[1].name # CallRequests[2].name

\* C18: a call_tool call that raises during Execute ends the run: it is the
\* last call made, no later call of the batch is sent, the Model Service is
\* not called a second time, the exception leaves the run, and nothing is
\* written as an answer.
C18_InvokeFailureFatal ==
    \A i \in 1..Len(calls) :
       (calls[i].op = "call_tool" /\ calls[i].status # "ok")
       => (/\ i = Len(calls)
           /\ Leaving
           /\ exc = calls[i].status
           /\ Len(CallRequests) = Len(mcp_results) + 1
           /\ Len(tool_results) = Len(mcp_results)
           /\ Len(gateway) = 1
           /\ ModelCalls = 1
           /\ synthesis_response = None
           /\ printed = <<>>)

C18_Witness ==
    /\ pc = "done"
    /\ Len(tool_calls) = 2
    /\ Len(CallRequests) = 1
    /\ calls # <<>>
    /\ ret.op = "call_tool"
    /\ ret.status = "TransportError"

\* C19: in a run, a tools/list or tools/call request is sent only while the
\* session is ready: after initialize has succeeded and before cleanup.
C19_RequestsOnlyWhenReady ==
    [][(/\ Len(requests') > Len(requests)
        /\ requests'[Len(requests')].method \in {"tools/list", "tools/call"})
       => (/\ session = "ClientSession"
           /\ initialized
           /\ TransportHeld
           /\ cleanups = 0
           /\ \E i \in 1..Len(calls) :
                 calls[i].op = "connect" /\ calls[i].status = "ok")]_vars

C19_Witness ==
    /\ Len(CallRequests) = 2
    /\ initialized
    /\ cleanups = 0
    /\ \E i \in 1..Len(requests) : requests[i].method = "tools/list"

\* C21: translation fills the defaults: a descriptor without a description (no
\* key, or the None that model_dump gives) yields description "", a
\* descriptor without an inputSchema yields {type: object, properties: {}},
\* and a field that is present is copied unchanged.
C21_TranslateFillsDefaults ==
    pc = "translated"
    => \A i \in 1..Len(mcp_tools) :
          /\ claude_tools[i].description =
                IF /\ "description" \in DOMAIN mcp_tools[i]
                   /\ mcp_tools[i].description # description_None
                THEN mcp_tools[i].description ELSE <<>>
          /\ claude_tools[i].input_schema =
                IF "inputSchema" \in DOMAIN mcp_tools[i]
                THEN mcp_tools[i].inputSchema
                ELSE [type |-> "object", properties |-> {}]

\* C22: when Synthesize completes, the final answer written is the texts of
\* the text blocks of the synthesis response's content joined in order;
\* blocks of other kinds add nothing.
C22_FinalAnswerIsJoinedText ==
    synthesis_response # None
    => (/\ Len(printed) = 1
        /\ printed[1] =
              JoinText(SelectSeq(synthesis_response.content,
                                 LAMBDA b : b.type = "text")))

C22_Witness ==
    /\ pc = "done"
    /\ synthesis_response # None
    /\ Len(synthesis_response.content) = 2
    /\ synthesis_response.content[1].type = "text"
    /\ synthesis_response.content[2].type = "text"
    /\ printed = << <<"b", "a">> >>

\* The calls of the Model Service among the first i calls of the run.
ModelCallsUpTo(i) ==
    Len(SelectSeq(SubSeq(calls, 1, i), LAMBDA c : c.op = "call_claude"))

\* C23: every run ends, having called the Model Service at most twice; no
\* call_tool is made after the second call, whatever the synthesis response
\* holds: only the tool_use blocks of the planning response are executed.
C23_TwoModelCallsThenDone ==
    <>[](/\ pc = "done"
         /\ ModelCalls <= 2
         /\ Len(gateway) <= 2
         /\ \A i \in 1..Len(calls) :
               calls[i].op = "call_tool" => ModelCallsUpTo(i) = 1
         /\ Len(CallRequests) <= Len(PlannedToolUses))

C23_Witness ==
    /\ pc = "done"
    /\ exc = "None"
    /\ ModelCalls = 2
    /\ synthesis_response # None
    /\ \E i \in 1..Len(synthesis_response.content) :
          synthesis_response.content[i].type = "tool_use"
    /\ Len(CallRequests) = 1

=============================================================================
